---------------------------- MODULE Spec2Model ----------------------------
(***************************************************************************)
(* Model of pizza/private/mstruct.py (Pizza3): the struct/param registry,  *)
(* the dependency sorter (struct.sortdefinitions) and the placeholder      *)
(* evaluation (param.eval, struct.format, SafeEvaluator).                  *)
(*                                                                         *)
(* Texts are sequences of one-character strings.  A few multi-character    *)
(* strings stand for the fixed parts of the messages that the code builds  *)
(* (for instance "<Error: Variable or function '"); they contain no        *)
(* character that the code inspects and are handled like one opaque        *)
(* character.  Field names are the one-letter names of Names.  pstr values *)
(* and NumPy arrays are not modelled.                                      *)
(***************************************************************************)
EXTENDS Integers, Sequences, FiniteSets, TLC

VARIABLES reg,          \* the registry: sequence of fields [k, v] (the order of __dict__)
          protection,   \* param._protection
          evaluation,   \* param._evaluation
          returnerror,  \* param._returnerror
          op,           \* the last operation applied
          arg,          \* the arguments of the last operation
          strict,       \* raiseerror argument of the last sortdefinitions
          pre,          \* the registry before the last operation
          res,          \* what the last operation returned
          err,          \* the exception raised by the last operation
          loop          \* the local variables of a running sortdefinitions

vars == <<reg, protection, evaluation, returnerror, op, arg, strict, pre, res, err, loop>>

(***************************************************************************)
(* Bounds                                                                  *)
(***************************************************************************)
MaxFields == 3

\* eval is not called on a registry that holds a list of MaxItems items or more
MaxItems == 3

\* the longest list of indices, of keys and of values given to a struct
MaxIndexes == 2
MaxKeys == 2
MaxValues == 3
\* the largest number of definitions that one paramauto brings to a stack
MaxGroup == 2
\* the longest text given to escape
MaxText == 4

Names == {"a", "b", "c", "d"}

\* names of which one is the beginning of another
PrefixNames == {"a", "ab", "abc"}

\* the characters of a name
Spell(name) ==
    CASE name = "ab" -> <<"a", "b">>
      [] name = "abc" -> <<"a", "b", "c">>
      [] OTHER -> <<name>>

\* the name that is spelled by the characters id
Key(id) == CHOOSE name \in Names \cup PrefixNames : Spell(name) = id

(***************************************************************************)
(* Values: int, str, list, None                                            *)
(***************************************************************************)
Num(n)  == [t |-> "num",  n |-> n, s |-> <<>>, l |-> <<>>]
Str(s)  == [t |-> "str",  n |-> 0, s |-> s,    l |-> <<>>]
List(l) == [t |-> "list", n |-> 0, s |-> <<>>, l |-> l]
None    == [t |-> "none", n |-> 0, s |-> <<>>, l |-> <<>>]

Field(k, v) == [k |-> k, v |-> v]

NoErr == [kind |-> "none", n |-> 0, of |-> 0]
Raised(kind, n, of) == [kind |-> kind, n |-> n, of |-> of]

\* no sortdefinitions is running
NoLoop == [on |-> FALSE, current |-> <<>>, dynamic |-> <<>>, nmissing |-> 0,
           anychange |-> FALSE, iterations |-> 0]

(***************************************************************************)
(* Python str primitives on texts (positions are 1-based, 0 = not found)   *)
(***************************************************************************)
MinOf(S) == CHOOSE i \in S : \A j \in S : i <= j

StartsAt(s, pat, i) ==
    /\ i >= 1
    /\ i + Len(pat) - 1 <= Len(s)
    /\ \A j \in 1..Len(pat) : s[i + j - 1] = pat[j]

\* str.find(pat, start)
Find(s, pat, start) ==
    LET C == {i \in start..Len(s) : StartsAt(s, pat, i)}
    IN  IF C = {} THEN 0 ELSE MinOf(C)

\* s[i:j] with 1-based inclusive bounds
Slice(s, i, j) == IF j < i THEN <<>> ELSE SubSeq(s, i, j)

RECURSIVE ReplaceFrom(_, _, _, _)
ReplaceFrom(s, old, new, start) ==
    LET p == Find(s, old, start)
    IN  IF p = 0 THEN Slice(s, start, Len(s))
        ELSE Slice(s, start, p - 1) \o new \o ReplaceFrom(s, old, new, p + Len(old))

\* str.replace(old, new)
Replace(s, old, new) == ReplaceFrom(s, old, new, 1)

\* str.startswith
StartsWith(s, pat) == StartsAt(s, pat, 1)

Spaces == {" "}

RECURSIVE LStrip(_)
LStrip(s) == IF s # <<>> /\ Head(s) \in Spaces THEN LStrip(Tail(s)) ELSE s

RECURSIVE RStrip(_)
RStrip(s) ==
    IF s # <<>> /\ s[Len(s)] \in Spaces THEN RStrip(SubSeq(s, 1, Len(s) - 1)) ELSE s

\* str.strip
Strip(s) == LStrip(RStrip(s))

(***************************************************************************)
(* struct: keys, values, membership, setattr, delattr, +, indexing         *)
(***************************************************************************)
keys(r) == [i \in 1..Len(r) |-> r[i].k]

values(r) == [i \in 1..Len(r) |-> r[i].v]

KeySet(r) == {r[i].k : i \in 1..Len(r)}

hasattr(r, key) == key \in KeySet(r)

IndexOf(r, key) == CHOOSE i \in 1..Len(r) : r[i].k = key

getattr(r, key) == r[IndexOf(r, key)].v

RemoveAt(r, i) == SubSeq(r, 1, i - 1) \o SubSeq(r, i + 1, Len(r))

\* __delattr__ of a key that is present
delattr(r, key) == RemoveAt(r, IndexOf(r, key))

\* dict assignment: an existing key keeps its position, a new key is appended
DictSet(r, key, value) ==
    IF hasattr(r, key)
    THEN [r EXCEPT ![IndexOf(r, key)] = Field(key, value)]
    ELSE Append(r, Field(key, value))

IsEmptyList(v) == v.t = "list" /\ v.l = <<>>

\* variant: an empty list is never stored
setattrNeverEmpty(r, key, value) ==
    IF IsEmptyList(value)
    THEN (IF hasattr(r, key) THEN delattr(r, key) ELSE r)
    ELSE DictSet(r, key, value)

setattr(r, key, value) ==
    IF IsEmptyList(value) /\ hasattr(r, key)
    THEN delattr(r, key)
    ELSE DictSet(r, key, value)

RECURSIVE DictUpdate(_, _)
DictUpdate(r, s) ==
    IF s = <<>> THEN r
    ELSE DictUpdate(DictSet(r, Head(s).k, Head(s).v), Tail(s))

\* variant: the fields of the left operand are kept on collision
StructAddLeftWins(r, s) == DictUpdate(r, SelectSeq(s, LAMBDA f : ~hasattr(r, f.k)))

\* struct.__add__ without sorting: duplicate(self) then __dict__.update
StructAdd(r, s) == DictUpdate(r, s)

RECURSIVE SetAll(_, _)
SetAll(r, s) ==
    IF s = <<>> THEN r
    ELSE SetAll(setattr(r, Head(s).k, Head(s).v), Tail(s))

\* the names f"key{ik}" of fromkeysvalues
AutoKeys == <<"key0", "key1", "key2", "key3", "key4", "key5">>

\* the first loop of fromkeysvalues: keys[ik] with values[iv], iv = min(nv-1, ik)
Paired(ks, vs) ==
    [ik \in 1..Len(ks) |-> Field(ks[ik], vs[IF ik < Len(vs) THEN ik ELSE Len(vs)])]

\* variant: the values beyond the keys are named key0, key1, ...
SurplusFromZero(ks, vs) ==
    [j \in 1..(IF Len(vs) > Len(ks) THEN Len(vs) - Len(ks) ELSE 0) |->
        Field(AutoKeys[j], vs[Len(ks) + j])]

\* the second loop of fromkeysvalues: f"key{ik}" with values[ik], ik = nk..nv-1
Surplus(ks, vs) ==
    [j \in 1..(IF Len(vs) > Len(ks) THEN Len(vs) - Len(ks) ELSE 0) |->
        Field(AutoKeys[Len(ks) + j], vs[Len(ks) + j])]

\* struct.fromkeysvalues(keys, values)
fromkeysvalues(ks, vs) ==
    IF Len(ks) > 0 /\ Len(vs) > 0
    THEN SetAll(<<>>, Paired(ks, vs) \o Surplus(ks, vs))
    ELSE <<>>

\* self[:i] (i fields) and self[[i]]
Prefix(r, n) == fromkeysvalues(keys(SubSeq(r, 1, n)), values(SubSeq(r, 1, n)))

Pick(r, i) == setattr(<<>>, r[i].k, r[i].v)

(***************************************************************************)
(* Expressions and their references                                        *)
(***************************************************************************)
Dollar == <<"$", "{">>
Ref(n) == <<"$", "{">> \o Spell(n) \o <<"}">>
Close  == <<"}">>

\* re.search(r"\$\{.*?\}", s) is not None
isstrexpression(s) ==
    LET i == Find(s, Dollar, 1) IN i # 0 /\ Find(s, Close, i + 2) # 0

RECURSIVE FindAll(_, _)
FindAll(s, start) ==
    LET i == Find(s, Dollar, start)
        j == IF i = 0 THEN 0 ELSE Find(s, Close, i + 2)
    IN  IF i = 0 \/ j = 0 THEN <<>>
        ELSE <<Slice(s, i + 2, j - 1)>> \o FindAll(s, j + 1)

RECURSIVE Uniq(_, _)
Uniq(found, acc) ==
    IF found = <<>> THEN acc
    ELSE Uniq(Tail(found),
              IF \E i \in 1..Len(acc) : acc[i] = Head(found) THEN acc
              ELSE Append(acc, Head(found)))

\* struct.scan(s).keys(): the placeholder contents, first occurrences, in order
scan(s) == Uniq(FindAll(s, 1), <<>>)

\* key in ref, for a key given as a text
KeyIn(key, ref) == \E i \in 1..Len(ref) : Spell(ref[i].k) = key

isstrdefined(s, ref) ==
    LET AllIn(k) == \A i \in 1..Len(k) : KeyIn(k[i], ref)
    IN  IF isstrexpression(s) THEN AllIn(scan(s)) ELSE FALSE

IsExpr(v) == v.t = "str" /\ isstrexpression(v.s)

isexpression(r) == [i \in 1..Len(r) |-> IsExpr(r[i].v)]

\* isdefined(ref=None): every expression is tested against the fields before it
isdefined(r) ==
    [i \in 1..Len(r) |->
        IF IsExpr(r[i].v) THEN isstrdefined(r[i].v.s, Prefix(r, i - 1)) ELSE TRUE]

AllTrue(bs) == \A i \in 1..Len(bs) : bs[i]


(***************************************************************************)
(* struct.sortdefinitions                                                  *)
(***************************************************************************)
RECURSIVE SelectFields(_, _)
SelectFields(r, dyn) ==
    IF r = <<>> THEN <<>>
    ELSE (IF IsExpr(Head(r).v) = dyn THEN <<Head(r)>> ELSE <<>>)
         \o SelectFields(Tail(r), dyn)

\* current + dynamic[[itst]]
teststruct(current, dynamic, itst) == StructAdd(current, Pick(dynamic, itst))

\* a sorter that accepts a pending field without testing its references
AcceptsUntested(current, dynamic, itst) == TRUE

\* found = all(list(teststruct.isdefined()))
Accepts(current, dynamic, itst) == AllTrue(isdefined(teststruct(current, dynamic, itst)))

\* variant: the last pending field that is accepted, 0 when none is
LastFound(current, dynamic) ==
    LET Last(C) == IF C = {} THEN 0 ELSE CHOOSE i \in C : \A j \in C : j <= i
    IN  Last({itst \in 1..Len(dynamic) : Accepts(current, dynamic, itst)})

\* the inner while loop: the first pending field that is accepted, 0 when none is
FirstFound(current, dynamic) ==
    LET First(C) == IF C = {} THEN 0 ELSE MinOf(C)
    IN  First({itst \in 1..Len(dynamic) : Accepts(current, dynamic, itst)})

\* the index left in ifound when the inner loop ends without found
LastTested(dynamic) == Len(dynamic)

\* the count reported by the KeyError
Missing(dynamic) == Len(dynamic)

\* variant: the accepted field stays in the pending set
DropPendingKept(dynamic, ifound) == dynamic

\* dynamic[ifound] = []
DropPending(dynamic, ifound) == setattr(dynamic, keys(dynamic)[ifound], List(<<>>))

RECURSIVE SortLoop(_, _, _, _, _)
SortLoop(current, dynamic, anychange, raiseerror, total) ==
    LET Step(ifound) ==
            IF ifound # 0
            THEN SortLoop(teststruct(current, dynamic, ifound),
                          DropPending(dynamic, ifound), TRUE, raiseerror, total)
            ELSE IF raiseerror
                 THEN [current |-> current, anychange |-> anychange,
                       err |-> Raised("KeyError", Missing(dynamic), total)]
                 ELSE SortLoop(teststruct(current, dynamic, LastTested(dynamic)),
                               DropPending(dynamic, LastTested(dynamic)),
                               anychange, raiseerror, total)
    IN  IF Len(dynamic) = 0
        THEN [current |-> current, anychange |-> anychange, err |-> NoErr]
        ELSE Step(FirstFound(current, dynamic))

\* self.clear() then setattr of every field of current, in its order
Reassign(current) == SetAll(<<>>, current)

\* variant: the order reached when the sort fails is applied to the registry
sortdefinitionsInPlace(r, raiseerror) ==
    LET Sorted(out) ==
            IF out.anychange
            THEN [reg |-> Reassign(StructAdd(out.current, SelectFields(r, TRUE))), err |-> out.err]
            ELSE [reg |-> r, err |-> out.err]
    IN  Sorted(SortLoop(fromkeysvalues(keys(SelectFields(r, FALSE)),
                                           values(SelectFields(r, FALSE))),
                        fromkeysvalues(keys(SelectFields(r, TRUE)),
                                       values(SelectFields(r, TRUE))),
                        FALSE, raiseerror, Len(r)))

sortdefinitions(r, raiseerror) ==
    LET Sorted(out) ==
            IF out.err # NoErr THEN [reg |-> r, err |-> out.err]
            ELSE IF out.anychange THEN [reg |-> Reassign(out.current), err |-> NoErr]
            ELSE [reg |-> r, err |-> NoErr]
    IN  Sorted(SortLoop(fromkeysvalues(keys(SelectFields(r, FALSE)),
                                           values(SelectFields(r, FALSE))),
                        fromkeysvalues(keys(SelectFields(r, TRUE)),
                                       values(SelectFields(r, TRUE))),
                        FALSE, raiseerror, Len(r)))

(***************************************************************************)
(* str(value), as substituted by str.format_map and by safe_fstring        *)
(***************************************************************************)
Digits == <<"0", "1", "2", "3", "4", "5", "6", "7", "8", "9">>

RECURSIVE IntText(_)
IntText(n) ==
    IF n < 10 THEN <<Digits[n + 1]>>
    ELSE IntText(n \div 10) \o <<Digits[(n % 10) + 1]>>

RECURSIVE StrOf(_)
RECURSIVE ReprList(_)

\* repr of the elements of a list, joined by ", "
ReprList(l) ==
    IF l = <<>> THEN <<>>
    ELSE (IF Head(l).t = "str" THEN <<"'">> \o Head(l).s \o <<"'">> ELSE StrOf(Head(l)))
         \o (IF Tail(l) = <<>> THEN <<>> ELSE <<",", " ">> \o ReprList(Tail(l)))

StrOf(v) ==
    CASE v.t = "num"  -> IntText(v.n)
      [] v.t = "str"  -> v.s
      [] v.t = "list" -> <<"[">> \o ReprList(v.l) \o <<"]">>
      [] v.t = "none" -> <<"N", "o", "n", "e">>

(***************************************************************************)
(* str.format_map(AttrErrorDict(tmp.__dict__)) for replacement fields that *)
(* hold a key only (no conversion, format spec, attribute or index)        *)
(***************************************************************************)
Fmt(exc, out, key) == [exc |-> exc, out |-> out, key |-> key]

IsDigits(f) == \A i \in 1..Len(f) : \E d \in 1..10 : f[i] = Digits[d]

RECURSIVE FormatFrom(_, _, _, _)
FormatFrom(s, i, tmp, out) ==
    IF i > Len(s) THEN Fmt("none", out, <<>>)
    ELSE IF s[i] = "{"
    THEN IF i < Len(s) /\ s[i + 1] = "{"
         THEN FormatFrom(s, i + 2, tmp, Append(out, "{"))
         ELSE LET j == Find(s, Close, i + 1)
                  o == Find(s, <<"{">>, i + 1)
                  field == Slice(s, i + 1, j - 1)
              IN  IF j = 0 \/ (o # 0 /\ o < j) \/ IsDigits(field)
                  THEN Fmt("ValueError", <<>>, <<>>)
                  ELSE IF KeyIn(field, tmp)
                  THEN FormatFrom(s, j + 1, tmp, out \o StrOf(getattr(tmp, Key(field))))
                  ELSE Fmt("AttributeError", <<>>, field)
    ELSE IF s[i] = "}"
    THEN IF i < Len(s) /\ s[i + 1] = "}"
         THEN FormatFrom(s, i + 2, tmp, Append(out, "}"))
         ELSE Fmt("ValueError", <<>>, <<>>)
    ELSE FormatFrom(s, i + 1, tmp, Append(out, s[i]))

format_map(s, tmp) == FormatFrom(s, 1, tmp, <<>>)

\* struct.format(s, escape, raiseerror): exc is the exception that leaves format
format(tmp, s, escape, raiseerror) ==
    LET Handled(f) ==
            IF ~raiseerror \/ f.exc = "none" THEN f
            ELSE IF f.exc = "AttributeError"
                 THEN Fmt("none", Replace(s, <<"{">>, Dollar), <<>>)
                 ELSE Fmt("RuntimeError", <<>>, <<>>)
    IN  Handled(format_map(IF escape THEN s ELSE Replace(s, Dollar, <<"{">>), tmp))

(***************************************************************************)
(* param.escape and param.protect                                          *)
(***************************************************************************)
Escaped == <<"\\", "$", "{">>

RECURSIVE EscapeFrom(_, _, _)
EscapeFrom(s, start, se) ==
    LET pos0 == Find(s, Escaped, start)
        pos1 == IF pos0 = 0 THEN 0 ELSE Find(s, Close, pos0)
    IN  IF pos0 = 0 \/ pos1 = 0
        THEN [s |-> se \o Replace(Slice(s, start, Len(s)), Dollar, <<"{">>),
              escape |-> start > 1]
        ELSE EscapeFrom(s, pos1 + 1,
                        se \o Replace(Slice(s, start, pos0 - 1), Dollar, <<"{">>)
                           \o <<"$", "{", "{">> \o Slice(s, pos0 + 3, pos1 - 1)
                           \o <<"}", "}">>)

\* variant: the backslash is not looked for, every ${ becomes {
escapeNothing(s) == [s |-> Replace(s, Dollar, <<"{">>), escape |-> FALSE]

escape(s) == EscapeFrom(s, 1, <<>>)

\* the names by increasing (length, name)
NameOrder == <<"a", "b", "c", "d", "ab", "abc">>

Rank(key) == CHOOSE i \in 1..Len(NameOrder) : NameOrder[i] = key

\* variant: the keys by increasing (length, key)
RECURSIVE keyssortedShortestFirst(_)
keyssortedShortestFirst(r) ==
    IF r = <<>> THEN <<>>
    ELSE LET m == CHOOSE i \in 1..Len(r) :
                      \A j \in 1..Len(r) : Rank(r[i].k) <= Rank(r[j].k)
         IN  <<r[m].k>> \o keyssortedShortestFirst(RemoveAt(r, m))

\* keyssorted(): the keys by decreasing (length, key)
RECURSIVE keyssorted(_)
keyssorted(r) ==
    IF r = <<>> THEN <<>>
    ELSE LET m == CHOOSE i \in 1..Len(r) :
                      \A j \in 1..Len(r) : Rank(r[j].k) <= Rank(r[i].k)
         IN  <<r[m].k>> \o keyssorted(RemoveAt(r, m))

RECURSIVE ProtectKeys(_, _)
ProtectKeys(t, ks) ==
    IF ks = <<>> THEN t
    ELSE ProtectKeys(Replace(t, <<"$">> \o Spell(Head(ks)), Ref(Head(ks))), Tail(ks))

protect(r, s) ==
    LET t0 == Replace(s, <<"\\", "$">>, <<"£", "£">>)
        t1 == ProtectKeys(t0, keyssorted(r))
    IN  [s |-> IF t0 # s THEN Replace(t1, <<"£", "£">>, <<"\\", "$">>) ELSE t1,
         escape |-> t0 # s]

(***************************************************************************)
(* ast.parse(expression, mode='eval') for the expressions of the model:    *)
(* integers, names, lists, the operator +, attribute access and calls      *)
(* with positional arguments.  Any other character is a syntax error (no   *)
(* candidate text leads to a subscript, a unary operator, a float or a     *)
(* quoted string).  The identifiers append, count, floor and foo are       *)
(* single symbols of a text.                                               *)
(***************************************************************************)
Letters == {"a", "b", "c", "d"}

Words == {"append", "count", "floor", "foo"}

IsDigit(c) == \E d \in 1..10 : c = Digits[d]

DigitValue(c) == (CHOOSE d \in 1..10 : c = Digits[d]) - 1

RECURSIVE TextInt(_)
TextInt(t) ==
    IF t = <<>> THEN 0
    ELSE 10 * TextInt(SubSeq(t, 1, Len(t) - 1)) + DigitValue(t[Len(t)])

RECURSIVE SkipWs(_, _)
SkipWs(s, i) == IF i <= Len(s) /\ s[i] \in Spaces THEN SkipWs(s, i + 1) ELSE i

\* the end of the run of digits (or of letters and digits) that starts at i
RECURSIVE RunEnd(_, _, _)
RunEnd(s, i, digitsonly) ==
    IF i <= Len(s) /\ (IsDigit(s[i]) \/ (~digitsonly /\ s[i] \in Letters \cup Words))
    THEN RunEnd(s, i + 1, digitsonly)
    ELSE i

Parsed(ast, pos) == [ok |-> TRUE, ast |-> ast, pos |-> pos]
NoParse == [ok |-> FALSE, ast |-> <<>>, pos |-> 0]

RECURSIVE ParseExpr(_, _)
RECURSIVE ParseSum(_, _, _)
RECURSIVE ParseAtom(_, _)
RECURSIVE ParseTrailers(_, _, _)
RECURSIVE ParseElts(_, _, _, _)

ParseExpr(s, i) ==
    LET Sum(a) == IF a.ok THEN ParseSum(s, a.ast, a.pos) ELSE NoParse
    IN  Sum(ParseAtom(s, i))

ParseSum(s, left, i) ==
    LET More(r) ==
            IF r.ok
            THEN ParseSum(s, [node |-> "BinOp", l |-> left, r |-> r.ast], r.pos)
            ELSE NoParse
        At(j) == IF j <= Len(s) /\ s[j] = "+"
                 THEN More(ParseAtom(s, j + 1))
                 ELSE Parsed(left, i)
    IN  At(SkipWs(s, i))

\* a primary followed by its trailers
ParseAtom(s, i) ==
    LET Trailers(p) == IF p.ok THEN ParseTrailers(s, p.ast, p.pos) ELSE NoParse
        Number(j, e, t) ==
            IF (e <= Len(s) /\ s[e] \in Letters \cup Words \cup {"."})
               \/ (t[1] = "0" /\ TextInt(t) # 0)
            THEN NoParse
            ELSE Parsed([node |-> "Constant", n |-> TextInt(t)], e)
        Name(j, e) == Parsed([node |-> "Name", id |-> SubSeq(s, j, e - 1)], e)
        Display(l) == IF l.ok THEN Parsed([node |-> "List", elts |-> l.ast], l.pos)
                      ELSE NoParse
        At(j) ==
            IF j > Len(s) THEN NoParse
            ELSE IF IsDigit(s[j])
            THEN Trailers(Number(j, RunEnd(s, j, TRUE),
                                 SubSeq(s, j, RunEnd(s, j, TRUE) - 1)))
            ELSE IF s[j] \in Letters \cup Words
            THEN Trailers(Name(j, RunEnd(s, j, FALSE)))
            ELSE IF s[j] = "["
            THEN Trailers(Display(ParseElts(s, j + 1, <<>>, "]")))
            ELSE NoParse
    IN  At(SkipWs(s, i))

\* the trailers of a primary: .name and (arguments); a subscript is not modelled
ParseTrailers(s, node, i) ==
    LET Attribute(k, e) ==
            ParseTrailers(s, [node |-> "Attribute", value |-> node,
                              attr |-> SubSeq(s, k, e - 1)], e)
        Dot(k) == IF k <= Len(s) /\ s[k] \in Letters \cup Words
                  THEN Attribute(k, RunEnd(s, k, FALSE))
                  ELSE NoParse
        Call(a) == IF a.ok
                   THEN ParseTrailers(s, [node |-> "Call", func |-> node,
                                          args |-> a.ast], a.pos)
                   ELSE NoParse
        At(j) ==
            IF j > Len(s) THEN Parsed(node, i)
            ELSE IF s[j] = "." THEN Dot(SkipWs(s, j + 1))
            ELSE IF s[j] = "(" THEN Call(ParseElts(s, j + 1, <<>>, ")"))
            ELSE IF s[j] = "[" THEN NoParse
            ELSE Parsed(node, i)
    IN  At(SkipWs(s, i))

\* the expressions separated by commas up to the closing bracket
ParseElts(s, i, elts, close) ==
    LET After(e, k) ==
            IF ~e.ok \/ k > Len(s) THEN NoParse
            ELSE IF s[k] = ","
            THEN ParseElts(s, k + 1, Append(elts, e.ast), close)
            ELSE IF s[k] = close
            THEN Parsed(Append(elts, e.ast), k + 1)
            ELSE NoParse
        Elt(e) == After(e, SkipWs(s, e.pos))
        At(j) ==
            IF j > Len(s) THEN NoParse
            ELSE IF s[j] = close THEN Parsed(elts, j + 1)
            ELSE Elt(ParseExpr(s, j))
    IN  At(SkipWs(s, i))

\* the whole text is one expression
parse(s) ==
    LET Whole(e) ==
            IF s # <<>> /\ s[1] \notin Spaces /\ e.ok /\ SkipWs(s, e.pos) > Len(s)
            THEN e ELSE NoParse
    IN  Whole(ParseExpr(s, 1))

(***************************************************************************)
(* SafeEvaluator.  The values of the context are the objects of tmp: a     *)
(* list reached through a name is the list object held by tmp, and a       *)
(* method called on it changes that object.  An environment is the struct  *)
(* tmp together with the identity of its list objects: obj[k] names the    *)
(* field that first held the list object of field k.                       *)
(***************************************************************************)
Val(v) == [exc |-> "none", v |-> v, id |-> <<>>]
Exc(kind, id) == [exc |-> kind, v |-> None, id |-> id]

\* math.floor and the other allow-listed callables; a bound method of a value
Builtin(name) == [t |-> "builtin", n |-> 0, s |-> <<name>>, l |-> <<>>]
Method(attr, self, o) == [t |-> "method", n |-> 0, s |-> <<attr, o>>, l |-> <<self>>]

NoObj == [k \in Names \cup PrefixNames |-> ""]
Env(tmp, obj) == [tmp |-> tmp, obj |-> obj, exc |-> "none"]

\* the result of a visit: value or exception, the identity of the value when it
\* is a list object of the environment, and the environment after the visit
Result(r, o, env) == [exc |-> r.exc, v |-> r.v, id |-> r.id, o |-> o, env |-> env]

\* the names of __init__ that can be spelled with the symbols of the model
AllowList == {<<"floor">>}

visit_Name(id, env) ==
    IF id \in AllowList THEN Result(Val(Builtin(id[1])), "", env)
    ELSE IF KeyIn(id, env.tmp)
    THEN Result(Val(getattr(env.tmp, Key(id))),
                IF getattr(env.tmp, Key(id)).t = "list" THEN env.obj[Key(id)] ELSE "", env)
    ELSE Result(Exc("ValueError", id), "", env)

\* operator.add
Add(x, y) ==
    CASE x.t = "num" /\ y.t = "num"   -> Val(Num(x.n + y.n))
      [] x.t = "str" /\ y.t = "str"   -> Val(Str(x.s \o y.s))
      [] x.t = "list" /\ y.t = "list" -> Val(List(x.l \o y.l))
      [] OTHER -> Exc("TypeError", <<>>)

\* hasattr(value, attr) and getattr(value, attr) for the attributes that can be
\* spelled: list.append, list.count and str.count
HasAttribute(value, attr) ==
    \/ value.t = "list" /\ attr \in {<<"append">>, <<"count">>}
    \/ value.t = "str" /\ attr = <<"count">>

\* callable(func)
Callable(func) == func.t \in {"builtin", "method"}

\* list.append on the list object o: every field that holds the object sees it
ListAppend(env, o, x) ==
    [env EXCEPT !.tmp = [i \in DOMAIN env.tmp |->
        IF env.tmp[i].v.t = "list" /\ o # "" /\ env.obj[env.tmp[i].k] = o
        THEN Field(env.tmp[i].k, List(Append(env.tmp[i].v.l, x)))
        ELSE env.tmp[i]]]

\* the object a method is bound to, as it is now
Bound(func, env) ==
    LET held == {i \in DOMAIN env.tmp :
                    /\ env.tmp[i].v.t = "list"
                    /\ func.s[2] # ""
                    /\ env.obj[env.tmp[i].k] = func.s[2]}
    IN  IF held = {} THEN func.l[1] ELSE env.tmp[CHOOSE i \in held : TRUE].v

\* str.count(sub): the occurrences that do not overlap
RECURSIVE CountFrom(_, _, _)
CountFrom(s, sub, i) ==
    IF sub = <<>> THEN Len(s) + 1
    ELSE IF Find(s, sub, i) = 0 THEN 0
    ELSE 1 + CountFrom(s, sub, Find(s, sub, i) + Len(sub))

\* func(*args)
Apply(func, args, env) ==
    LET CountIn(self) ==
            IF self.t = "list"
            THEN Result(Val(Num(Cardinality({i \in DOMAIN self.l : self.l[i] = args[1]}))),
                        "", env)
            ELSE IF args[1].t = "str"
            THEN Result(Val(Num(CountFrom(self.s, args[1].s, 1))), "", env)
            ELSE Result(Exc("TypeError", <<>>), "", env)
    IN  CASE func.t = "builtin" /\ Len(args) = 1 /\ args[1].t = "num" ->
               Result(Val(Num(args[1].n)), "", env)
          [] func.t = "method" /\ Len(args) = 1 /\ func.s[1] = "append" ->
               Result(Val(None), "", ListAppend(env, func.s[2], args[1]))
          [] func.t = "method" /\ Len(args) = 1 /\ func.s[1] = "count" ->
               CountIn(Bound(func, env))
          [] OTHER -> Result(Exc("TypeError", <<>>), "", env)

RECURSIVE visit(_, _)
RECURSIVE VisitElts(_, _, _)

\* [self.visit(elt) for elt in elts], from left to right
VisitElts(elts, env, acc) ==
    LET Rest(e) == IF e.exc # "none" THEN e
                   ELSE VisitElts(Tail(elts), e.env, Append(acc, e.v))
    IN  IF elts = <<>> THEN Result(Val(List(acc)), "", env)
        ELSE Rest(visit(Head(elts), env))

\* variant: the arguments are evaluated before the callee is looked at
visit_CallArgumentsFirst(node, env) ==
    LET Invoke(func, args) == IF func.exc # "none" THEN func
                              ELSE IF Callable(func.v)
                              THEN Apply(func.v, args.v.l, func.env)
                              ELSE Result(Exc("ValueError", <<>>), "", func.env)
        Call(args) == IF args.exc # "none" THEN args
                      ELSE Invoke(visit(node.func, args.env), args)
    IN  Call(VisitElts(node.args, env, <<>>))

\* the callee is evaluated first; its arguments are evaluated, and the call is
\* made, only when it is callable
visit_Call(node, env) ==
    LET Invoke(func, args) == IF args.exc # "none" THEN args
                              ELSE Apply(func.v, args.v.l, args.env)
        Call(func) == IF func.exc # "none" THEN func
                      ELSE IF Callable(func.v)
                      THEN Invoke(func, VisitElts(node.args, func.env, <<>>))
                      ELSE Result(Exc("ValueError", <<>>), "", func.env)
    IN  Call(visit(node.func, env))

visit_BinOp(node, env) ==
    LET Both(left, right) == IF right.exc # "none" THEN right
                             ELSE Result(Add(left.v, right.v), "", right.env)
        Right(left) == IF left.exc # "none" THEN left
                       ELSE Both(left, visit(node.r, left.env))
    IN  Right(visit(node.l, env))

visit_Attribute(node, env) ==
    LET Attribute(value) ==
            IF value.exc # "none" THEN value
            ELSE IF HasAttribute(value.v, node.attr)
            THEN Result(Val(Method(node.attr[1], value.v, value.o)), "", value.env)
            ELSE Result(Exc("ValueError", <<>>), "", value.env)
    IN  Attribute(visit(node.value, env))

visit(node, env) ==
    CASE node.node = "Constant" -> Result(Val(Num(node.n)), "", env)
      [] node.node = "Name" -> visit_Name(node.id, env)
      [] node.node = "List" -> VisitElts(node.elts, env, <<>>)
      [] node.node = "BinOp" -> visit_BinOp(node, env)
      [] node.node = "Attribute" -> visit_Attribute(node, env)
      [] node.node = "Call" -> visit_Call(node, env)

evaluate(expression, env) ==
    LET Body(tree) == IF tree.ok THEN visit(tree.ast, env)
                      ELSE Result(Exc("SyntaxError", <<>>), "", env)
    IN  Body(parse(expression))

(***************************************************************************)
(* ast.literal_eval                                                        *)
(***************************************************************************)
RECURSIVE convert(_)
RECURSIVE ConvertElts(_, _)

ConvertElts(elts, acc) ==
    LET Rest(e) == IF e.exc # "none" THEN e
                   ELSE ConvertElts(Tail(elts), Append(acc, e.v))
    IN  IF elts = <<>> THEN Val(List(acc))
        ELSE Rest(convert(Head(elts)))

convert(node) ==
    CASE node.node = "Constant" -> Val(Num(node.n))
      [] node.node = "List" -> ConvertElts(node.elts, <<>>)
      [] OTHER -> Exc("ValueError", <<>>)

literal_eval(s) ==
    LET Body(tree) == IF tree.ok THEN convert(tree.ast) ELSE Exc("SyntaxError", <<>>)
    IN  Body(parse(LStrip(s)))

(***************************************************************************)
(* param.safe_fstring                                                      *)
(***************************************************************************)
\* re.sub(r'(?<!^)\#.*', '', s)
StripComment(s) ==
    LET p == Find(s, <<"#">>, 2) IN IF p = 0 THEN s ELSE Slice(s, 1, p - 1)

process_template(valuesafe) ==
    Strip(Replace(StripComment(Strip(valuesafe)), <<"^">>, <<"*", "*">>))

\* the message of an exception: only the undefined name is kept
ErrorMessage(e) ==
    IF e.exc = "ValueError" /\ e.id # <<>>
    THEN <<"Variable or function '">> \o e.id \o <<"' is not defined">>
    ELSE <<e.exc>>

\* the text that replaces ${expr}, and the environment after its evaluation
replacer(expr, env) ==
    LET Serialized(e) ==
            [out |-> IF e.exc = "none" THEN StrOf(e.v)
                     ELSE <<"<Error: ">> \o ErrorMessage(e) \o <<">">>,
             env |-> e.env]
    IN  Serialized(evaluate(expr, env))

\* the first brace at or after i, 0 when there is none
RECURSIVE NextBrace(_, _)
NextBrace(s, i) ==
    IF i > Len(s) THEN 0
    ELSE IF s[i] \in {"{", "}"} THEN i ELSE NextBrace(s, i + 1)

\* re.compile(r'\$\{([^{}]+)\}').sub(replacer, s), from left to right
RECURSIVE SubFrom(_, _, _, _)
SubFrom(s, i, env, out) ==
    LET Replaced(r, j) == SubFrom(s, j + 1, r.env, out \o r.out)
        Span(j) == IF j > i + 2 /\ s[j] = "}"
                   THEN Replaced(replacer(Slice(s, i + 2, j - 1), env), j)
                   ELSE SubFrom(s, i + 1, env, Append(out, s[i]))
    IN  IF i > Len(s) THEN [out |-> out, env |-> env]
        ELSE Span(IF StartsAt(s, Dollar, i) THEN NextBrace(s, i + 2) ELSE 0)

safe_fstring(template, env) == SubFrom(process_template(template), 1, env, <<>>)

(***************************************************************************)
(* param.eval                                                              *)
(***************************************************************************)
\* tmp.setattr(key, value): a list that is not an object of tmp yet is a new one
Store(env, key, value, o) ==
    [tmp |-> setattr(env.tmp, key, value),
     obj |-> [env.obj EXCEPT ![key] = IF value.t # "list" THEN ""
                                      ELSE IF o # "" THEN o ELSE key],
     exc |-> "none"]

Stored(env) == [tmp |-> env.tmp, obj |-> env.obj, exc |-> "none"]
Raises(env, kind) == [tmp |-> env.tmp, obj |-> env.obj, exc |-> kind]

\* tmp.setattr(key, tmp.format(...)) where format may raise
StoreFormat(env, key, f) ==
    IF f.exc = "none" THEN Store(env, key, Str(f.out), "") ELSE Raises(env, f.exc)

\* the items of a list given with !: the texts that do not start with $ are formatted
RECURSIVE FormatItems(_, _)
FormatItems(tmp, l) ==
    LET Formatted(item, f) ==
            IF f.exc = "none" THEN Str(f.out)
            ELSE Str(<<"Error in <">> \o item.s \o <<">: ", f.exc>>)
        Item(item) ==
            IF item.t = "str" /\ ~StartsWith(Strip(item.s), <<"$">>)
            THEN Formatted(item, format(tmp, item.s, FALSE, FALSE))
            ELSE item
    IN  IF l = <<>> THEN <<>>
        ELSE <<Item(Head(l))>> \o FormatItems(tmp, Tail(l))

\* the branch of a text that starts with !
EvalLiteral(env, key, valuesafe) ==
    LET Keep(vtmp) ==
            IF vtmp.exc \in {"SyntaxError", "ValueError"}
            THEN Store(env, key, Str(<<"Error: ", vtmp.exc>>), "")
            ELSE IF vtmp.exc # "none" THEN Raises(env, vtmp.exc)
            ELSE IF vtmp.v.t = "list"
            THEN Store(env, key, List(FormatItems(env.tmp, vtmp.v.l)), "")
            ELSE Store(env, key, vtmp.v, "")
    IN  Keep(literal_eval(Tail(valuesafe)))

\* what is stored when the evaluation of resstr fails
KeepText(resstr) == Str(resstr)

\* variant: the failure of the evaluation leaves eval instead of being kept
StoreEvaluatedOrRaise(env, key, resstr, kept) ==
    LET Keep(reseval) ==
            IF reseval.exc = "none" THEN Store(reseval.env, key, reseval.v, reseval.o)
            ELSE Raises(reseval.env, reseval.exc)
    IN  Keep(evaluate(resstr, env))

\* evaluation of the substituted text; the text itself is stored when it fails
StoreEvaluated(env, key, resstr, kept) ==
    LET Keep(reseval) ==
            IF reseval.exc = "none" THEN Store(reseval.env, key, reseval.v, reseval.o)
            ELSE Store(reseval.env, key, KeepText(kept), "")
    IN  Keep(evaluate(resstr, env))

\* the branch "full evaluation"
EvalFull(env, key, value, valuesafe, priorescape, returnerr) ==
    LET Fallback(r) == StoreEvaluated(r.env, key, r.out, r.out)
        Formatted(f) ==
            CASE f.exc = "none" ->
                   StoreEvaluated(env, key, f.out, Replace(f.out, <<"\n">>, <<",">>))
              [] f.exc \in {"KeyError", "NameError"} ->
                   IF returnerr
                   THEN Store(env, key,
                              Str(<<"< undef definition \"${">> \o f.key \o <<"}\" >">>), "")
                   ELSE Store(env, key, value, "")
              [] f.exc \in {"SyntaxError", "TypeError", "ValueError"} ->
                   Store(env, key, Str(<<"ERROR < ", f.exc, " >">>), "")
              [] f.exc \in {"IndexError", "AttributeError"} ->
                   Fallback(safe_fstring(priorescape, env))
              [] OTHER ->
                   Store(env, key, Str(<<"Error in ${}: < ", f.exc, " >">>), "")
    IN  Formatted(format(env.tmp, valuesafe, FALSE, FALSE))

\* one iteration of the loop of eval on a text
EvalText(self, env, key, value, protect_, evaluation_, returnerr) ==
    LET Branch(valuesafe, esc, priorescape) ==
            IF ~evaluation_
            THEN StoreFormat(env, key, format(env.tmp, valuesafe, esc, TRUE))
            ELSE IF StartsWith(valuesafe, <<"!">>)
            THEN EvalLiteral(env, key, valuesafe)
            ELSE IF StartsWith(valuesafe, <<"$">>) /\ ~esc
            THEN StoreFormat(env, key, format(env.tmp, LStrip(Tail(valuesafe)), FALSE, TRUE))
            ELSE IF StartsWith(valuesafe, <<"%">>)
            THEN StoreFormat(env, key, format(env.tmp, LStrip(Tail(valuesafe)), FALSE, TRUE))
            ELSE IF valuesafe = <<>>
            THEN Store(env, key, Str(valuesafe), "")
            ELSE IF esc
            THEN StoreFormat(env, key, format(env.tmp, valuesafe, TRUE, TRUE))
            ELSE EvalFull(env, key, value, valuesafe, priorescape, returnerr)
        Uncommented(v1, poscomment) ==
            IF poscomment > 1 THEN Strip(Slice(v1, 1, poscomment - 1)) ELSE v1
        Power(v1, esc, priorescape) ==
            Branch(Uncommented(v1, Find(v1, <<"#">>, 1)), esc, priorescape)
        Escape(e, p) == Power(Replace(e.s, <<"^">>, <<"*", "*">>), e.escape \/ p.escape, p.s)
        Protect(p) == Escape(escape(p.s), p)
    IN  Protect(IF protect_ THEN protect(self, value.s)
                ELSE [s |-> value.s, escape |-> FALSE])

\* variant: a value of an unsupported type (None) is stored as it is
EvalFieldKeepsNone(self, env, key, value, protect_, evaluation_, returnerr) ==
    CASE value.t = "str" -> EvalText(self, env, key, value, protect_, evaluation_, returnerr)
      [] OTHER -> Store(env, key, value, "")

\* variant: a number is stored as its text, str(value)
EvalFieldAsText(self, env, key, value, protect_, evaluation_, returnerr) ==
    CASE value.t = "str" -> EvalText(self, env, key, value, protect_, evaluation_, returnerr)
      [] value.t = "num" -> Store(env, key, Str(StrOf(value)), "")
      [] value.t = "list" -> Store(env, key, value, "")
      [] OTHER -> Stored(env)

\* one iteration of the loop of eval: texts are interpreted, numbers and lists
\* are stored as the objects they are, any other type (None) is reported and
\* not stored
EvalField(self, env, key, value, protect_, evaluation_, returnerr) ==
    CASE value.t = "str" -> EvalText(self, env, key, value, protect_, evaluation_, returnerr)
      [] value.t \in {"num", "list"} -> Store(env, key, value, "")
      [] OTHER -> Stored(env)

\* the order in which eval walks the fields: self.items()
EvalOrder(self) == self

RECURSIVE EvalLoop(_, _, _, _, _, _)
EvalLoop(self, todo, env, protect_, evaluation_, returnerr) ==
    LET Rest(st) ==
            IF st.exc # "none" THEN st
            ELSE EvalLoop(self, Tail(todo), st, protect_, evaluation_, returnerr)
    IN  IF todo = <<>> THEN Stored(env)
        ELSE Rest(EvalField(self, env, Head(todo).k, Head(todo).v,
                            protect_, evaluation_, returnerr))

\* the fields of self after the loop: a list of self is the object stored in tmp
\* under the same name
Shared(self, st) ==
    [i \in DOMAIN self |->
        IF self[i].v.t = "list" /\ hasattr(st.tmp, self[i].k)
        THEN Field(self[i].k, getattr(st.tmp, self[i].k))
        ELSE self[i]]

\* param.eval(): the struct of the evaluated fields, or the exception that leaves
\* eval, and the fields of self after the call
eval(self, protect_, evaluation_, returnerr) ==
    LET Return(st) == [tmp |-> IF st.exc = "none" THEN st.tmp ELSE <<>>,
                       exc |-> st.exc,
                       self |-> Shared(self, st)]
    IN  Return(EvalLoop(self, EvalOrder(self), Env(<<>>, NoObj),
                        protect_, evaluation_, returnerr))

(***************************************************************************)
(* Texts and values given to the registry.  Every name has its own small   *)
(* set of candidate values; together they contain a number, a list, None,  *)
(* plain expressions, a self reference, a cycle (a -> d -> c -> a), an     *)
(* escaped placeholder, the sigils $ and !, and texts without placeholder. *)
(***************************************************************************)
Candidates(key) ==
    CASE key = "a" ->
           { Num(1),
             Str(Ref("d")),                           \* "${d}"
             Str(<<"$", "1", "+", "1">>),             \* "$1+1"
             None }
      [] key = "b" ->
           { Num(2),
             Str(Ref("a") \o <<"+", "1">>),           \* "${a}+1"
             Str(<<"a", "+", "1">>),                  \* "a+1"
             Str(<<"\\">> \o Ref("d")) }              \* "\${d}"
      [] key = "c" ->
           { Str(Ref("a") \o <<"+">> \o Ref("b")),    \* "${a}+${b}"
             Str(Ref("a") \o <<"+">> \o Ref("d")),    \* "${a}+${d}"
             Str(Ref("c")),                           \* "${c}"
             Str(<<"$", "c", "}">>) }                 \* "$c}"
      [] key = "d" ->
           { Num(2),
             Str(Ref("c")),                           \* "${c}"
             Str(<<"!", "[", "1", ",", "2", "]">>),   \* "![1,2]"
             Str(<<"1", "+", "1">>),                  \* "1+1"
             List(<<Num(1), Num(2)>>) }               \* [1, 2]

(***************************************************************************)
(* The state machine                                                       *)
(***************************************************************************)
Init ==
    /\ reg = <<>>
    /\ protection = FALSE
    /\ evaluation = TRUE
    /\ returnerror = TRUE
    /\ op = "init"
    /\ arg = <<>>
    /\ strict = FALSE
    /\ pre = <<>>
    /\ res = <<>>
    /\ err = NoErr
    /\ loop = NoLoop

Flags == <<protection, evaluation, returnerror>>

\* p.key = value
SetField ==
    \E key \in Names :
      \E value \in Candidates(key) :
        /\ hasattr(reg, key) \/ Len(reg) < MaxFields
        /\ reg' = setattr(reg, key, value)
        /\ op' = "set"
        /\ arg' = <<>>
        /\ strict' = FALSE
        /\ pre' = <<>>
        /\ res' = <<>>
        /\ err' = NoErr
        /\ UNCHANGED Flags
        /\ UNCHANGED loop

\* p.sortdefinitions(raiseerror=...)
SortDefinitions ==
    \E raiseerror \in BOOLEAN :
        LET Return(out) == reg' = out.reg /\ err' = out.err
        IN  /\ reg # <<>>
            /\ Return(sortdefinitions(reg, raiseerror))
            /\ op' = "sort"
            /\ arg' = <<>>
            /\ strict' = raiseerror
            /\ pre' = reg
            /\ res' = <<>>
            /\ UNCHANGED Flags
            /\ UNCHANGED loop

\* p.eval()
Eval ==
    LET Return(out) ==
            /\ res' = out.tmp
            /\ reg' = out.self
            /\ err' = IF out.exc = "none" THEN NoErr ELSE Raised(out.exc, 0, 0)
    IN  /\ reg # <<>>
        /\ \A i \in DOMAIN reg : reg[i].v.t = "list" => Len(reg[i].v.l) < MaxItems
        /\ Return(eval(reg, protection, evaluation, returnerror))
        /\ op' = "eval"
        /\ arg' = <<>>
        /\ strict' = FALSE
        /\ pre' = reg
        /\ UNCHANGED <<protection, evaluation, returnerror>>
        /\ UNCHANGED loop

Next == SetField \/ SortDefinitions \/ Eval

Spec == Init /\ [][Next]_vars

(***************************************************************************)
(* The expressions given to the evaluator: a list and a number, a second   *)
(* name for the list, a bound method kept as a value, calls of a method,   *)
(* of an allow-listed function, of a number and of an unknown name, and    *)
(* an unknown attribute.                                                   *)
(***************************************************************************)
Expressions(key) ==
    CASE key = "a" ->
           { List(<<Num(1), Num(2)>>),
             Num(1) }
      [] key = "b" ->
           { Str(<<"a">>),                                        \* "a"
             Str(<<"a", ".", "append">>),                         \* "a.append"
             Str(<<"floor", "(", "a", ")">>) }                    \* "floor(a)"
      [] key = "c" ->
           { Str(<<"a", ".", "append", "(", "3", ")">>),          \* "a.append(3)"
             Str(<<"b", ".", "append", "(", "3", ")">>),          \* "b.append(3)"
             Str(<<"a", ".", "count", "(", "1", ")">>),           \* "a.count(1)"
             Str(<<"a", ".", "foo">>),                            \* "a.foo"
             Str(<<"a", "(", "1", ")">>) }                        \* "a(1)"
      [] key = "d" ->
           { Str(<<"foo", "(", "a", ".", "append", "(", "3", ")", ")">>),
                                                                  \* "foo(a.append(3))"
             Str(<<"floor", "(", "a", ".", "append", "(", "3", ")", ")">>),
                                                                  \* "floor(a.append(3))"
             Str(<<"b", "(", "4", ")">>),                         \* "b(4)"
             Str(<<"[", "a", ".", "append", "(", "3", ")", ",",
                   "a", ".", "count", "(", "3", ")", "]">>) }     \* "[a.append(3),a.count(3)]"

\* p.key = expression
SetExpression ==
    \E key \in Names :
      \E value \in Expressions(key) :
        /\ hasattr(reg, key) \/ Len(reg) < MaxFields
        /\ reg' = setattr(reg, key, value)
        /\ op' = "set"
        /\ arg' = <<>>
        /\ strict' = FALSE
        /\ pre' = <<>>
        /\ res' = <<>>
        /\ err' = NoErr
        /\ UNCHANGED Flags
        /\ UNCHANGED loop

NextCall == SetExpression \/ Eval

CallSpec == Init /\ [][NextCall]_vars

(***************************************************************************)
(* A registry built with _protection=True, with names of which one is the  *)
(* beginning of another and texts that refer to them with and without      *)
(* braces.                                                                 *)
(***************************************************************************)
Protected(key) ==
    CASE key = "a" ->
           { Num(1),
             Str(<<"2">>) }                                       \* "2"
      [] key = "ab" ->
           { Num(2),
             Str(<<"$", "a", "+", "1">>),                         \* "$a+1"
             Str(Ref("a") \o <<"+", "1">>) }                      \* "${a}+1"
      [] key = "abc" ->
           { Str(<<"$", "a", "b">>),                              \* "$ab"
             Str(<<"$", "a", "b", "+", "$", "a">>),               \* "$ab+$a"
             Str(Ref("ab") \o <<"+">> \o Ref("a")),               \* "${ab}+${a}"
             Str(<<"$", "a", "+", "$", "a", "b", "c">>) }         \* "$a+$abc"

\* param(_protection=True)
InitProtected ==
    /\ reg = <<>>
    /\ protection = TRUE
    /\ evaluation = TRUE
    /\ returnerror = TRUE
    /\ op = "init"
    /\ arg = <<>>
    /\ strict = FALSE
    /\ pre = <<>>
    /\ res = <<>>
    /\ err = NoErr
    /\ loop = NoLoop

\* p.key = value
SetProtected ==
    \E key \in PrefixNames :
      \E value \in Protected(key) :
        /\ hasattr(reg, key) \/ Len(reg) < MaxFields
        /\ reg' = setattr(reg, key, value)
        /\ op' = "set"
        /\ arg' = <<>>
        /\ strict' = FALSE
        /\ pre' = <<>>
        /\ res' = <<>>
        /\ err' = NoErr
        /\ UNCHANGED Flags
        /\ UNCHANGED loop

NextProtected == SetProtected \/ Eval

ProtectedSpec == InitProtected /\ [][NextProtected]_vars

(***************************************************************************)
(* The structural operations of struct: attribute and item assignment,     *)
(* getattr, delattr, + and +=, indexing with a list and with a slice, and  *)
(* fromkeysvalues.  The values are a number and the empty list.            *)
(***************************************************************************)
StructNames == {"a", "b", "c"}

StructValues == {Num(1), List(<<>>)}

\* the right operands of + and +=
OtherStructs ==
    { <<>>,
      <<Field("b", Num(1))>>,
      <<Field("c", List(<<>>)), Field("a", Num(1))>>,
      <<Field("d", Num(1)), Field("b", List(<<>>))>>,
      <<Field("c", Str(Ref("d"))), Field("d", Num(1))>> }      \* c="${d}", d=1

\* struct._excludedattr after __init__
ExcludedAttr ==
    {"_iter_", "__class__", "_protection", "_evaluation", "_returnerror",
     "_excludedattr", "_type", "_fulltype", "_ftype"}

\* names of struct.__dict__: the methods of the class
ClassAttr == {"keys", "values", "format"}

\* all the sequences of at most n elements of S
SeqsUpTo(S, n) == UNION {[1..m -> S] : m \in 0..n}

\* variant: __delattr__ without the test of the class attributes
DeleteErrorOfFields(r, key) ==
    IF key \in ExcludedAttr THEN "AttributeError: Cannot delete excluded attribute"
    ELSE IF hasattr(r, key) THEN "none"
    ELSE "AttributeError: has no attribute"

\* the exception raised by __delattr__, "none" when the field is deleted
DeleteError(r, key) ==
    IF key \in ExcludedAttr THEN "AttributeError: Cannot delete excluded attribute"
    ELSE IF key \in ClassAttr THEN "AttributeError: Cannot delete class attribute"
    ELSE IF hasattr(r, key) THEN "none"
    ELSE "AttributeError: has no attribute"

\* the fields of r at the positions idx (counted from 0)
Selected(r, idx) == [j \in 1..Len(idx) |-> r[idx[j] + 1]]

\* variant: self[idx] for a list, the selected fields taken in the order of self
getitemInSourceOrder(r, idx) ==
    SetAll(<<>>, SelectSeq(r, LAMBDA f : \E j \in 1..Len(idx) : r[idx[j] + 1] = f))

\* self[idx] for a list of indices that are all in range
getitem(r, idx) == SetAll(<<>>, Selected(r, idx))

\* list(range(n))[start:stop:step] for step 1 and -1 and start, stop >= 0
SliceIndices(start, stop, step, n) ==
    IF step = 1
    THEN [j \in 1..(MinOf({stop, n}) - MinOf({start, n})) |-> MinOf({start, n}) + j - 1]
    ELSE [j \in 1..(MinOf({start, n - 1}) - MinOf({stop, n - 1})) |->
              MinOf({start, n - 1}) - j + 1]

\* s.key = value
SetAttr ==
    \E key \in StructNames :
      \E value \in StructValues :
        /\ hasattr(reg, key) \/ Len(reg) < MaxFields
        /\ reg' = setattr(reg, key, value)
        /\ op' = "setattr"
        /\ arg' = <<key, value>>
        /\ pre' = reg
        /\ res' = <<>>
        /\ err' = NoErr
        /\ UNCHANGED <<Flags, strict>>
        /\ UNCHANGED loop

\* s[idx] = value for an integer idx
SetItem ==
    \E idx \in -1..MaxFields :
      \E value \in StructValues :
        /\ reg' = IF idx < Len(reg) /\ -idx <= Len(reg)
                  THEN setattr(reg, reg[(idx % Len(reg)) + 1].k, value)
                  ELSE reg
        /\ err' = IF idx < Len(reg) /\ -idx <= Len(reg) THEN NoErr
                  ELSE Raised("IndexError", 0, 0)
        /\ op' = "setitem"
        /\ arg' = <<idx, value>>
        /\ pre' = reg
        /\ res' = <<>>
        /\ UNCHANGED <<Flags, strict>>
        /\ UNCHANGED loop

\* s[key] = value for a name: no branch of __setitem__ handles a str
SetItemByName ==
    \E key \in StructNames :
      \E value \in StructValues :
        /\ op' = "setitemname"
        /\ arg' = <<key, value>>
        /\ pre' = reg
        /\ res' = <<>>
        /\ err' = NoErr
        /\ UNCHANGED <<reg, Flags, strict>>
        /\ UNCHANGED loop

\* s.getattr(key)
GetAttr ==
    \E key \in StructNames \cup {"keys"} :
        /\ res' = IF hasattr(reg, key) THEN <<getattr(reg, key)>> ELSE <<>>
        /\ err' = IF hasattr(reg, key) THEN NoErr
                  ELSE Raised("AttributeError: does not exist", 0, 0)
        /\ op' = "getattr"
        /\ arg' = <<key>>
        /\ pre' = reg
        /\ UNCHANGED <<reg, Flags, strict>>
        /\ UNCHANGED loop

\* delattr(s, key)
DelAttr ==
    \E key \in StructNames \cup {"_iter_", "keys"} :
        /\ reg' = IF DeleteError(reg, key) = "none" THEN delattr(reg, key) ELSE reg
        /\ err' = IF DeleteError(reg, key) = "none" THEN NoErr
                  ELSE Raised(DeleteError(reg, key), 0, 0)
        /\ op' = "delattr"
        /\ arg' = <<key>>
        /\ pre' = reg
        /\ res' = <<>>
        /\ UNCHANGED <<Flags, strict>>
        /\ UNCHANGED loop

\* s + other
StructPlus ==
    \E other \in OtherStructs :
        /\ res' = StructAdd(reg, other)
        /\ op' = "add"
        /\ arg' = other
        /\ pre' = reg
        /\ err' = NoErr
        /\ UNCHANGED <<reg, Flags, strict>>
        /\ UNCHANGED loop

\* s += other
StructPlusAssign ==
    \E other \in OtherStructs :
        /\ reg' = StructAdd(reg, other)
        /\ res' = StructAdd(reg, other)
        /\ op' = "iadd"
        /\ arg' = other
        /\ pre' = reg
        /\ err' = NoErr
        /\ UNCHANGED <<Flags, strict>>
        /\ UNCHANGED loop

\* p + other for a paramauto p: the union is sorted, errors are not raised
AutoPlus ==
    \E other \in OtherStructs :
        /\ res' = sortdefinitions(StructAdd(reg, other), FALSE).reg
        /\ op' = "addsorted"
        /\ arg' = other
        /\ pre' = reg
        /\ err' = NoErr
        /\ UNCHANGED <<reg, Flags, strict>>
        /\ UNCHANGED loop

\* p += other for a paramauto p
AutoPlusAssign ==
    \E other \in OtherStructs :
        /\ reg' = sortdefinitions(StructAdd(reg, other), FALSE).reg
        /\ res' = sortdefinitions(StructAdd(reg, other), FALSE).reg
        /\ op' = "iaddsorted"
        /\ arg' = other
        /\ pre' = reg
        /\ err' = NoErr
        /\ UNCHANGED <<Flags, strict>>
        /\ UNCHANGED loop

\* s[idx] for a list of integers
GetItemList ==
    \E idx \in SeqsUpTo(-1..MaxFields, MaxIndexes) :
        /\ res' = IF \A j \in 1..Len(idx) : idx[j] >= 0 /\ idx[j] < Len(reg)
                  THEN getitem(reg, idx) ELSE <<>>
        /\ err' = IF \A j \in 1..Len(idx) : idx[j] >= 0 /\ idx[j] < Len(reg)
                  THEN NoErr ELSE Raised("IndexError", 0, 0)
        /\ op' = "getitemlist"
        /\ arg' = idx
        /\ pre' = reg
        /\ UNCHANGED <<reg, Flags, strict>>
        /\ UNCHANGED loop

\* s[start:stop:step]
GetItemSlice ==
    \E start \in 0..MaxFields, stop \in 0..MaxFields, step \in {1, -1} :
        /\ res' = fromkeysvalues(
                      keys(Selected(reg, SliceIndices(start, stop, step, Len(reg)))),
                      values(Selected(reg, SliceIndices(start, stop, step, Len(reg)))))
        /\ err' = NoErr
        /\ op' = "getitemslice"
        /\ arg' = <<start, stop, step>>
        /\ pre' = reg
        /\ UNCHANGED <<reg, Flags, strict>>
        /\ UNCHANGED loop

\* struct.fromkeysvalues(ks, vs), a static method that constructs a struct
FromKeysValues ==
    \E ks \in SeqsUpTo({"a", "b", "key1"}, MaxKeys) :
      \E vs \in SeqsUpTo({Num(1), Num(2), List(<<>>)}, MaxValues) :
        /\ op = "init"
        /\ res' = fromkeysvalues(ks, vs)
        /\ err' = NoErr
        /\ op' = "fromkeysvalues"
        /\ arg' = <<ks, vs>>
        /\ pre' = reg
        /\ UNCHANGED <<reg, Flags, strict>>
        /\ UNCHANGED loop

\* assignment, getattr and delattr
NextField == SetAttr \/ SetItem \/ SetItemByName \/ GetAttr \/ DelAttr

FieldSpec == Init /\ [][NextField]_vars

\* assignment, + and +=
NextUnion == SetAttr \/ StructPlus \/ StructPlusAssign \/ AutoPlus \/ AutoPlusAssign

UnionSpec == Init /\ [][NextUnion]_vars

\* assignment and indexing
NextIndex == SetAttr \/ GetItemList \/ GetItemSlice

IndexSpec == Init /\ [][NextIndex]_vars

\* construction from keys and values
ConstructSpec == Init /\ [][FromKeysValues]_vars


(***************************************************************************)
(* Stacking of definitions: p += paramauto(...) and p.eval()               *)
(***************************************************************************)
\* the definitions that a paramauto can bring
Definitions == UNION {{Field(key, value) : value \in Candidates(key)} : key \in Names}

\* p += paramauto(group), for definitions whose names p does not hold yet
Stack ==
    \E group \in SeqsUpTo(Definitions, MaxGroup) :
        /\ group # <<>>
        /\ Len(reg) + Len(group) <= MaxFields
        /\ \A i \in 1..Len(group) :
               /\ ~hasattr(reg, group[i].k)
               /\ \A j \in 1..Len(group) : group[j].k = group[i].k => i = j
        /\ reg' = sortdefinitions(StructAdd(reg, group), FALSE).reg
        /\ res' = sortdefinitions(StructAdd(reg, group), FALSE).reg
        /\ op' = "iaddsorted"
        /\ arg' = group
        /\ pre' = reg
        /\ err' = NoErr
        /\ UNCHANGED <<Flags, strict>>
        /\ UNCHANGED loop

NextStack == Stack \/ Eval

StackSpec == Init /\ [][NextStack]_vars

(***************************************************************************)
(* The sorter alone: sortdefinitions on registries of up to four fields    *)
(***************************************************************************)
\* values of the fields: static, satisfiable, cyclic, self-referential,
\* escaped and empty-list values
SortValues(key) ==
    CASE key = "a" -> { Num(1), List(<<>>), Str(Ref("d")) }                \* 1, [], "${d}"
      [] key = "b" -> { Str(Ref("a") \o <<"+", "1">>),                     \* "${a}+1"
                        Str(<<"\\">> \o Ref("d")) }                        \* "\${d}"
      [] key = "c" -> { Str(Ref("a") \o <<"+">> \o Ref("b")),              \* "${a}+${b}"
                        Str(Ref("c")),                                     \* "${c}"
                        Str(Ref("d")) }                                    \* "${d}"
      [] key = "d" -> { Num(2), Str(Ref("c")) }                            \* 2, "${c}"

\* the registries with distinct names, in every insertion order
Registries ==
    {r \in SeqsUpTo(UNION {{Field(key, value) : value \in SortValues(key)} : key \in Names},
                    Cardinality(Names)) :
        \A i, j \in 1..Len(r) : r[i].k = r[j].k => i = j}

InitSorter ==
    /\ reg \in Registries
    /\ protection = FALSE
    /\ evaluation = TRUE
    /\ returnerror = TRUE
    /\ op = "init"
    /\ arg = <<>>
    /\ strict = FALSE
    /\ pre = <<>>
    /\ res = <<>>
    /\ err = NoErr
    /\ loop = NoLoop

SorterSpec == InitSorter /\ [][SortDefinitions]_vars

(***************************************************************************)
(* The loop of sortdefinitions, one iteration of the outer loop at a time  *)
(***************************************************************************)
\* the call, up to `while nmissing`
SortEnter ==
    \E raiseerror \in BOOLEAN :
        /\ ~loop.on
        /\ reg # <<>>
        /\ loop' = [on |-> TRUE,
                    current |-> fromkeysvalues(keys(SelectFields(reg, FALSE)),
                                               values(SelectFields(reg, FALSE))),
                    dynamic |-> fromkeysvalues(keys(SelectFields(reg, TRUE)),
                                               values(SelectFields(reg, TRUE))),
                    nmissing |-> Len(SelectFields(reg, TRUE)),
                    anychange |-> FALSE,
                    iterations |-> 0]
        /\ op' = "sorting"
        /\ strict' = raiseerror
        /\ pre' = reg
        /\ arg' = <<>>
        /\ res' = <<>>
        /\ err' = NoErr
        /\ UNCHANGED <<reg, Flags>>

\* one iteration of `while nmissing`: the inner loop tests the first nmissing
\* pending fields (dynamic[[itst]] raises IndexError beyond the pending set),
\* then the field found, or in lenient mode the last one tested, is accepted
SortStep(l, raiseerror, of) ==
    LET Accept(ifound, change) ==
            [loop |-> [l EXCEPT !.current = teststruct(l.current, l.dynamic, ifound),
                                !.dynamic = DropPending(l.dynamic, ifound),
                                !.nmissing = @ - 1,
                                !.anychange = change,
                                !.iterations = @ + 1],
             op |-> "sorting", err |-> NoErr]
        Raise(kind) ==
            [loop |-> [l EXCEPT !.on = FALSE, !.iterations = @ + 1],
             op |-> "sort", err |-> Raised(kind, l.nmissing, of)]
        Step(ifound) ==
            IF ifound # 0 THEN Accept(ifound, TRUE)
            ELSE IF raiseerror THEN Raise("KeyError")
            ELSE Accept(l.nmissing, l.anychange)
    IN  IF l.nmissing > Len(l.dynamic)
        THEN Raise("IndexError")
        ELSE Step(FirstFound(l.current, SubSeq(l.dynamic, 1, l.nmissing)))

SortIterate ==
    /\ loop.on
    /\ loop.nmissing > 0
    /\ loop' = SortStep(loop, strict, Len(reg)).loop
    /\ op' = SortStep(loop, strict, Len(reg)).op
    /\ err' = SortStep(loop, strict, Len(reg)).err
    /\ UNCHANGED <<reg, Flags, arg, strict, pre, res>>

\* after the loop: `if anychange` the registry is cleared and refilled
SortLeave ==
    /\ loop.on
    /\ loop.nmissing = 0
    /\ reg' = IF loop.anychange THEN Reassign(loop.current) ELSE reg
    /\ loop' = [loop EXCEPT !.on = FALSE]
    /\ op' = "sort"
    /\ err' = NoErr
    /\ UNCHANGED <<Flags, arg, strict, pre, res>>

NextLoop == SortEnter \/ SortIterate \/ SortLeave

LoopSpec == InitSorter /\ [][NextLoop]_vars

\* SortIterate can be taken: its step is defined for every running loop
\* with pending fields, and it changes loop.iterations
IterateEnabled == loop.on /\ loop.nmissing > 0

\* the interpreter does not stop inside the call: weak fairness of the two
\* steps of the loop, WF_vars(SortIterate) written with its enabling
\* condition spelled out
LoopFairSpec ==
    /\ LoopSpec
    /\ WF_vars(SortLeave)
    /\ ([]<>~IterateEnabled \/ []<><<SortIterate>>_vars)

(***************************************************************************)
(* The flag that selects what an undefined name leaves: p._returnerror     *)
(***************************************************************************)
\* p._returnerror = flag
SetReturnError ==
    \E flag \in BOOLEAN :
        /\ returnerror' = flag
        /\ op' = "flag"
        /\ arg' = <<>>
        /\ pre' = <<>>
        /\ res' = <<>>
        /\ err' = NoErr
        /\ UNCHANGED <<reg, protection, evaluation, strict>>
        /\ UNCHANGED loop

NextFlag == SetField \/ SetReturnError \/ Eval

FlagSpec == Init /\ [][NextFlag]_vars

(***************************************************************************)
(* The escape transform alone: param.escape(s)                             *)
(***************************************************************************)
\* the texts made of the characters of a placeholder
Texts == SeqsUpTo({"$", "{", "}", "\\", "a"}, MaxText)

\* param.escape(s)
EscapeText ==
    \E s \in Texts :
        /\ op = "init"
        /\ res' = <<escape(s)>>
        /\ op' = "escape"
        /\ arg' = <<s>>
        /\ UNCHANGED <<reg, pre, err, Flags, strict>>
        /\ UNCHANGED loop

EscapeSpec == Init /\ [][EscapeText]_vars

(***************************************************************************)
(* Vocabulary of the specification, used to state the properties           *)
(***************************************************************************)
\* a "${" that is not preceded by a backslash and is closed by a "}"
UnescapedSpan(s, i) ==
    /\ StartsAt(s, Dollar, i)
    /\ i = 1 \/ s[i - 1] # "\\"
    /\ Find(s, Close, i + 2) # 0

\* dynamic field: its text contains an unescaped ${...} span
Dynamic(v) == v.t = "str" /\ \E i \in 1..Len(v.s) : UnescapedSpan(v.s, i)

\* the names that a value references in an unescaped ${name} placeholder
References(v) ==
    IF v.t # "str" THEN {}
    ELSE {n \in Names : \E i \in 1..Len(v.s) :
                            UnescapedSpan(v.s, i) /\ StartsAt(v.s, Ref(n), i)}

\* the contents of the unescaped placeholders that are not the name of a field
Unknown(v, r) ==
    IF v.t # "str" THEN {}
    ELSE {i \in 1..Len(v.s) :
             /\ UnescapedSpan(v.s, i)
             /\ \A n \in KeySet(r) : ~StartsAt(v.s, Ref(n), i)}

Satisfied(f, acc, r) == References(f.v) \subseteq KeySet(acc) /\ Unknown(f.v, r) = {}

RECURSIVE Subsequence(_, _)
Subsequence(r, dyn) ==
    IF r = <<>> THEN <<>>
    ELSE (IF Dynamic(Head(r).v) = dyn THEN <<Head(r)>> ELSE <<>>)
         \o Subsequence(Tail(r), dyn)

\* first fit: repeatedly append the first pending field that is satisfied
RECURSIVE FirstFitFrom(_, _, _)
FirstFitFrom(acc, pending, r) ==
    LET C == {i \in 1..Len(pending) : Satisfied(pending[i], acc, r)}
    IN  IF pending = <<>> \/ C = {}
        THEN [order |-> acc, pending |-> pending]
        ELSE FirstFitFrom(Append(acc, pending[MinOf(C)]), RemoveAt(pending, MinOf(C)), r)

FirstFit(r) == FirstFitFrom(Subsequence(r, FALSE), Subsequence(r, TRUE), r)

Position(r, key) == IndexOf(r, key)

(***************************************************************************)
(* C1: after sortdefinitions has completed in strict mode, every           *)
(* expression field comes after every field that it references in a       *)
(* ${...} placeholder.                                                     *)
(***************************************************************************)
C1_ReferencesFirst ==
    (op = "sort" /\ strict /\ err = NoErr) =>
        \A i \in 1..Len(reg) :
            Dynamic(reg[i].v) =>
                \A n \in References(reg[i].v) :
                    hasattr(reg, n) /\ Position(reg, n) < i

\* a strict sort that succeeded and moved an expression behind its reference
C1_Witness ==
    /\ op = "sort" /\ strict /\ err = NoErr
    /\ reg # pre
    /\ \E i \in 1..Len(reg) : Dynamic(reg[i].v) /\ References(reg[i].v) # {}

(***************************************************************************)
(* C2: when every dynamic field eventually becomes satisfiable, the        *)
(* sorter returns the first-fit order: the static fields in their original *)
(* order, then the dynamic fields taken first-fit.                         *)
(***************************************************************************)
C2_FirstFitOrder ==
    (op = "sort" /\ FirstFit(pre).pending = <<>>) =>
        (err = NoErr /\ reg = FirstFit(pre).order)

(***************************************************************************)
(* C3: in strict mode, when no pending dynamic field is satisfiable, the   *)
(* sorter raises KeyError with the number of unresolved fields.            *)
(***************************************************************************)
C3_StrictCount ==
    (op = "sort" /\ strict /\ FirstFit(pre).pending # <<>>) =>
        (err.kind = "KeyError" /\ err.n = Len(FirstFit(pre).pending))

(***************************************************************************)
(* Vocabulary of the properties of resolve (param.eval)                    *)
(***************************************************************************)
\* the resolved registry and the raw registry hold the same fields
SameFields(r, s) == {r[i] : i \in 1..Len(r)} = {s[i] : i \in 1..Len(s)}

\* the field has the same resolved value (or no resolved value) in r and s
SameValue(r, s, key) ==
    /\ hasattr(r, key) <=> hasattr(s, key)
    /\ hasattr(r, key) => getattr(r, key) = getattr(s, key)

\* a text that contains a ${...} span, escaped or not
HasPlaceholder(v) ==
    v.t = "str" /\ \E i \in 1..Len(v.s) :
                       StartsAt(v.s, Dollar, i) /\ Find(v.s, Close, i + 2) # 0

\* the names of fields that occur in a text, inside or outside a placeholder
Mentions(v) ==
    IF v.t # "str" THEN {}
    ELSE {n \in Names : \E i \in 1..Len(v.s) : v.s[i] = n}

\* the fields that reference a name that the registry does not define
Broken(r) == {r[i].k : i \in {j \in 1..Len(r) : ~(References(r[j].v) \subseteq KeySet(r))}}

\* the fields whose text leads, directly or not, to a field of S
RECURSIVE Tainted(_, _)
Tainted(r, S) ==
    LET T == S \cup {r[i].k : i \in {j \in 1..Len(r) : Mentions(r[j].v) \cap S # {}}}
    IN  IF T = S THEN S ELSE Tainted(r, T)

Without(r, S) == SelectSeq(r, LAMBDA f : f.k \notin S)

\* {a: 1, b: "${a}+1", c: "${a}+${d}"}
PartialFailure ==
    << Field("a", Num(1)),
       Field("b", Str(Ref("a") \o <<"+", "1">>)),
       Field("c", Str(Ref("a") \o <<"+">> \o Ref("d"))) >>

\* a text that carries an error message naming the field n
NamesInError(v, n) ==
    v.t = "str" /\ \E i \in 1..Len(v.s) :
                       StartsAt(v.s, <<"Variable or function '", n, "' is not defined">>, i)

\* the registries obtained by reordering the fields of r
Orders(r) ==
    LET n == Len(r)
        P == {p \in [1..n -> 1..n] : \A i, j \in 1..n : p[i] = p[j] => i = j}
    IN  {[i \in 1..n |-> r[p[i]]] : p \in P}

\* the raw text \${x}
EscapedRef(n) == Str(<<"\\">> \o Ref(n))

(***************************************************************************)
(* C4: eval never raises; for every kind of text field an error of the     *)
(* substitution or of the evaluation is stored at the slot of the field    *)
(* and every field of a supported type gets a resolved value.              *)
(***************************************************************************)
C4_NeverRaises ==
    op = "eval" =>
        /\ err = NoErr
        /\ \A i \in 1..Len(pre) : pre[i].v # None => hasattr(res, pre[i].k)

C6_SorterOrder ==
    (op = "eval" /\ FirstFit(pre).pending = <<>>) =>
        LET sorted == EvalLoop(pre, FirstFit(pre).order, Env(<<>>, NoObj),
                               protection, evaluation, returnerror)
        IN  /\ err = NoErr <=> sorted.exc = "none"
            /\ err = NoErr => SameFields(res, sorted.tmp)

C8_Idempotent ==
    (op = "eval" /\ err = NoErr) =>
        LET again == eval(res, protection, evaluation, returnerror)
        IN  again.exc = "none" /\ again.tmp = res

(***************************************************************************)
(* C8 as amended: resolve is idempotent when every resolved value is a     *)
(* number or a list (no resolved value is a text).                         *)
(***************************************************************************)
C8_IdempotentWithoutText ==
    (op = "eval" /\ err = NoErr /\ \A i \in 1..Len(res) : res[i].v.t \in {"num", "list"}) =>
        LET again == eval(res, protection, evaluation, returnerror)
        IN  again.exc = "none" /\ again.tmp = res

\* expressions have been resolved to numbers and lists only
C8_Witness ==
    /\ op = "eval" /\ err = NoErr
    /\ Len(res) >= 2
    /\ \A i \in 1..Len(res) : res[i].v.t \in {"num", "list"}
    /\ \E i \in 1..Len(pre) : Dynamic(pre[i].v)
    /\ \E i \in 1..Len(pre) : pre[i].v.t = "str" /\ ~Dynamic(pre[i].v)

(***************************************************************************)
(* C9: the resolved value of a static field (a value that is not a text,   *)
(* or a text without unescaped ${...} placeholder) is the same for every   *)
(* order in which the fields of the registry are evaluated.                *)
(***************************************************************************)
C9_StaticOrderIndependent ==
    (op = "eval" /\ err = NoErr) =>
        \A r \in Orders(pre) :
            LET other == eval(r, protection, evaluation, returnerror)
            IN  other.exc = "none" =>
                    \A i \in 1..Len(pre) :
                        ~Dynamic(pre[i].v) => SameValue(res, other.tmp, pre[i].k)

(***************************************************************************)
(* C10: a field whose raw text is \${x} resolves to the text ${x}, when    *)
(* the registry has a field x and when it has none.                        *)
(***************************************************************************)
C10_EscapedLiteral ==
    (op = "eval" /\ err = NoErr) =>
        \A i \in 1..Len(pre) : \A x \in Names :
            pre[i].v = EscapedRef(x) =>
                (hasattr(res, pre[i].k) /\ getattr(res, pre[i].k) = Str(Ref(x)))

\* \${x} has been resolved after the field x got a resolved value
C10_Witness ==
    /\ op = "eval" /\ err = NoErr
    /\ \E i \in 1..Len(pre) : \E x \in Names :
           /\ pre[i].v = EscapedRef(x)
           /\ hasattr(pre, x) /\ Position(pre, x) < i
           /\ hasattr(res, x) /\ getattr(res, x).t = "num"
           /\ getattr(res, pre[i].k) = Str(Ref(x))

(***************************************************************************)
(* Vocabulary of the properties of the evaluator                           *)
(***************************************************************************)
\* the environment in which eval evaluates the field at position i
EnvBefore(i) ==
    EvalLoop(pre, SubSeq(pre, 1, i - 1), Env(<<>>, NoObj),
             protection, evaluation, returnerror)

\* the field at position i is a text that eval gives whole to the evaluator
Evaluated(i) ==
    /\ pre[i].v.t = "str"
    /\ parse(pre[i].v.s).ok
    /\ EnvBefore(i).exc = "none"

Tree(i) == parse(pre[i].v.s).ast

\* the expression of the field at position i is a call
IsCall(i) == Evaluated(i) /\ Tree(i).node = "Call"

\* the callee of a call is the name of an allow-listed callable
CalleeAllowed(call) == call.func.node = "Name" /\ call.func.id \in AllowList

\* the callee of a call is a name that neither the context nor the allow-list has
CalleeUnknown(call, env) ==
    /\ call.func.node = "Name"
    /\ call.func.id \notin AllowList
    /\ ~KeyIn(call.func.id, env.tmp)

\* a tree holds an attribute access
RECURSIVE HasAttributeNode(_)
RECURSIVE AnyHasAttributeNode(_)
AnyHasAttributeNode(nodes) ==
    nodes # <<>> /\ (HasAttributeNode(Head(nodes)) \/ AnyHasAttributeNode(Tail(nodes)))

HasAttributeNode(tree) ==
    CASE tree.node = "Attribute" -> TRUE
      [] tree.node = "BinOp" -> HasAttributeNode(tree.l) \/ HasAttributeNode(tree.r)
      [] tree.node = "List" -> AnyHasAttributeNode(tree.elts)
      [] tree.node = "Call" -> HasAttributeNode(tree.func) \/ AnyHasAttributeNode(tree.args)
      [] OTHER -> FALSE

(***************************************************************************)
(* C11: eval leaves the source registry as it was: the same names in the   *)
(* same order with the same raw values, the items of its lists included.   *)
(***************************************************************************)
C11_SourceUnchanged == op = "eval" => reg = pre

(***************************************************************************)
(* C12: a call whose callee is not an allow-listed callable fails and is   *)
(* not executed: its evaluation raises and leaves the environment as it    *)
(* was.                                                                    *)
(***************************************************************************)
C12_OnlyAllowListedCalls ==
    op = "eval" =>
        \A i \in 1..Len(pre) :
            (IsCall(i) /\ ~CalleeAllowed(Tree(i))) =>
                LET r == evaluate(pre[i].v.s, EnvBefore(i))
                IN  r.exc # "none" /\ r.env = EnvBefore(i)

(***************************************************************************)
(* C13: an expression with an attribute access (there is no Array in the   *)
(* model, and no allow-listed pass-through attribute) fails.               *)
(***************************************************************************)
C13_NoAttributeAccess ==
    op = "eval" =>
        \A i \in 1..Len(pre) :
            (Evaluated(i) /\ HasAttributeNode(Tree(i))) =>
                evaluate(pre[i].v.s, EnvBefore(i)).exc # "none"

NamesAt(s, i, r) == {j \in 1..Len(r) : StartsAt(s, Spell(r[j].k), i)}

\* the longest of them
LongestAt(s, i, r) ==
    r[CHOOSE j \in NamesAt(s, i, r) :
          \A k \in NamesAt(s, i, r) : Len(Spell(r[k].k)) <= Len(Spell(r[j].k))].k

\* the text s where every $name that no backslash precedes, name being the
\* longest registered name spelled there, is written ${name}
RECURSIVE BracedFrom(_, _, _)
BracedFrom(s, i, r) ==
    IF i > Len(s) THEN <<>>
    ELSE IF s[i] = "$" /\ (i = 1 \/ s[i - 1] # "\\") /\ NamesAt(s, i + 1, r) # {}
    THEN Ref(LongestAt(s, i + 1, r))
            \o BracedFrom(s, i + 1 + Len(Spell(LongestAt(s, i + 1, r))), r)
    ELSE <<s[i]>> \o BracedFrom(s, i + 1, r)

Braced(s, r) == BracedFrom(s, 1, r)

(***************************************************************************)
(* C15: with protection, a text that refers to registered names without    *)
(* braces ($name) resolves like the text that refers to them with braces   *)
(* (${name}), also when a name is the beginning of another one.            *)
(***************************************************************************)
C15_BareLikeBraced ==
    (op = "eval" /\ protection) =>
        \A i \in 1..Len(pre) :
            pre[i].v.t = "str" =>
                LET other == eval([pre EXCEPT ![i].v = Str(Braced(pre[i].v.s, pre))],
                                  protection, evaluation, returnerror)
                IN  /\ other.tmp = res
                    /\ (other.exc = "none") <=> (err = NoErr)

\* $ab has been resolved to a number in a registry that holds a and ab
C15_Witness ==
    /\ op = "eval" /\ protection /\ err = NoErr
    /\ \E i \in 1..Len(pre) :
           /\ pre[i].v.t = "str"
           /\ StartsAt(pre[i].v.s, <<"$", "a", "b">>, 1)
           /\ Braced(pre[i].v.s, pre) # pre[i].v.s
           /\ hasattr(pre, "a") /\ Position(pre, "a") < i
           /\ hasattr(pre, "ab") /\ Position(pre, "ab") < i
           /\ getattr(res, pre[i].k).t = "num"

(***************************************************************************)
(* Vocabulary of the properties of the structural operations               *)
(***************************************************************************)
\* the registry r without the field name
Dropped(r, name) == SelectSeq(r, LAMBDA f : f.k # name)

\* the name that the last assignment was about
Assigned == IF op = "setitem" THEN pre[(arg[1] % Len(pre)) + 1].k ELSE arg[1]

\* the positions (from 0) that the last indexing selects
Indexes ==
    IF op = "getitemlist" THEN arg
    ELSE SliceIndices(arg[1], arg[2], arg[3], Len(pre))

\* no element occurs twice in a sequence
Distinct(q) == \A i, j \in 1..Len(q) : i # j => q[i] # q[j]

(***************************************************************************)
(* C16: an assignment of the empty list (attribute, setattr or item)       *)
(* deletes the field: the registry does not hold the name afterwards and   *)
(* its other fields and their order are as before.                         *)
(***************************************************************************)
C16_EmptyListDeletes ==
    (op \in {"setattr", "setitem", "setitemname"} /\ err = NoErr /\ IsEmptyList(arg[2])) =>
        /\ ~hasattr(reg, Assigned)
        /\ reg = Dropped(pre, Assigned)

(***************************************************************************)
(* C17 as stated: getattr of an absent name fails (does not exist);        *)
(* delattr fails for a name of the exclusion list (excluded attribute)     *)
(* and for an absent name (no attribute); a failure leaves the registry    *)
(* as it was and a successful delattr removes that field only.             *)
(***************************************************************************)
C17_GetDeleteErrors ==
    /\ (op = "getattr" /\ ~hasattr(pre, arg[1])) =>
           (err.kind = "AttributeError: does not exist" /\ reg = pre)
    /\ op = "delattr" =>
           IF arg[1] \in ExcludedAttr
           THEN err.kind = "AttributeError: Cannot delete excluded attribute" /\ reg = pre
           ELSE IF ~hasattr(pre, arg[1])
           THEN err.kind = "AttributeError: has no attribute" /\ reg = pre
           ELSE err = NoErr /\ reg = Dropped(pre, arg[1])

(***************************************************************************)
(* C17 amended: as C17, and delattr of a name that is an attribute of the  *)
(* class (a method such as keys) fails as a reserved name (class           *)
(* attribute), whether the registry holds the name or not.                 *)
(***************************************************************************)
C17_GetDeleteErrorsOfClass ==
    /\ (op = "getattr" /\ ~hasattr(pre, arg[1])) =>
           (err.kind = "AttributeError: does not exist" /\ reg = pre)
    /\ (op = "getattr" /\ hasattr(pre, arg[1])) =>
           (err = NoErr /\ res = <<getattr(pre, arg[1])>> /\ reg = pre)
    /\ op = "delattr" =>
           IF arg[1] \in ExcludedAttr
           THEN err.kind = "AttributeError: Cannot delete excluded attribute" /\ reg = pre
           ELSE IF arg[1] \in ClassAttr
           THEN err.kind = "AttributeError: Cannot delete class attribute" /\ reg = pre
           ELSE IF ~hasattr(pre, arg[1])
           THEN err.kind = "AttributeError: has no attribute" /\ reg = pre
           ELSE err = NoErr /\ reg = Dropped(pre, arg[1])

\* delattr of keys has failed on a registry that holds fields
C17_Witness ==
    /\ op = "delattr" /\ arg = <<"keys">>
    /\ pre # <<>> /\ reg = pre
    /\ err.kind = "AttributeError: Cannot delete class attribute"

C19_SourceOrder ==
    (op \in {"getitemlist", "getitemslice"} /\ err = NoErr) =>
        /\ reg = pre
        /\ KeySet(res) = {pre[Indexes[j] + 1].k : j \in 1..Len(Indexes)}
        /\ \A k \in KeySet(res) : getattr(res, k) = getattr(pre, k)
        /\ \A x, y \in KeySet(res) :
               Position(res, x) < Position(res, y) <=> Position(pre, x) < Position(pre, y)

(***************************************************************************)
(* C19 amended: for a list of distinct positions and for a slice, s[list]  *)
(* and s[slice] return the selected fields with the values of s in the     *)
(* order in which the list or the slice selects them, and leave s as it    *)
(* was.                                                                    *)
(***************************************************************************)
C19_SelectionOrder ==
    (op \in {"getitemlist", "getitemslice"} /\ err = NoErr) =>
        /\ reg = pre
        /\ Distinct(Indexes) => res = [j \in 1..Len(Indexes) |-> pre[Indexes[j] + 1]]

\* two fields have been selected by a list in the order opposite to theirs
C19_Witness ==
    /\ op = "getitemlist" /\ err = NoErr
    /\ Len(arg) = 2 /\ arg[1] > arg[2]
    /\ Len(res) = 2 /\ res[1] = pre[arg[1] + 1] /\ res[2] = pre[arg[2] + 1]

(***************************************************************************)
(* C20 as stated: fromkeysvalues pairs the names and the values of the     *)
(* same position, stores the values beyond the names under key0, key1,     *)
(* ... and gives the last value to the names beyond the values.            *)
(***************************************************************************)
C20_SurplusFromKey0 ==
    op = "fromkeysvalues" =>
        LET ks == arg[1]
            vs == arg[2]
        IN  /\ \A i \in 1..Len(ks) :
                   i <= Len(vs) => (hasattr(res, ks[i]) /\ getattr(res, ks[i]) = vs[i])
            /\ \A j \in 1..(Len(vs) - Len(ks)) :
                   hasattr(res, AutoKeys[j]) /\ getattr(res, AutoKeys[j]) = vs[Len(ks) + j]
            /\ \A i \in 1..Len(ks) :
                   (i > Len(vs) /\ Len(vs) > 0) =>
                       (hasattr(res, ks[i]) /\ getattr(res, ks[i]) = vs[Len(vs)])

(***************************************************************************)
(* C20 amended: for distinct names of which none is a generated name, and  *)
(* at least one name and one value, fromkeysvalues pairs the names and the *)
(* values of the same position, stores the value of position i (from 0)    *)
(* beyond the names under key<i>, and gives the last value to the names    *)
(* beyond the values; with no name or no value the registry is empty.      *)
(***************************************************************************)
C20_SurplusFromPosition ==
    op = "fromkeysvalues" =>
        LET ks == arg[1]
            vs == arg[2]
        IN  /\ (Len(ks) = 0 \/ Len(vs) = 0) => res = <<>>
            /\ (/\ Len(ks) > 0 /\ Len(vs) > 0
                /\ Distinct(ks)
                /\ \A i \in 1..Len(ks) : \A n \in 1..Len(AutoKeys) : ks[i] # AutoKeys[n])
               => /\ Len(res) = IF Len(ks) > Len(vs) THEN Len(ks) ELSE Len(vs)
                  /\ \A i \in 1..Len(ks) :
                         res[i] = Field(ks[i], vs[IF i < Len(vs) THEN i ELSE Len(vs)])
                  /\ \A i \in (Len(ks) + 1)..Len(vs) :
                         res[i] = Field(AutoKeys[i], vs[i])

\* one name and three values: the values beyond the name are key1 and key2
C20_Witness ==
    /\ op = "fromkeysvalues"
    /\ Len(arg[1]) = 1 /\ Len(arg[2]) = 3
    /\ keys(res) = <<arg[1][1], "key1", "key2">>

(***************************************************************************)
(* C21: s[name] = value with a name sets the field as the attribute        *)
(* assignment does: afterwards the registry holds value under name,        *)
(* whether the name was a field or not.                                    *)
(***************************************************************************)
C21_ItemSetByName ==
    (op = "setitemname" /\ err = NoErr /\ ~IsEmptyList(arg[2])) =>
        /\ hasattr(reg, arg[1])
        /\ getattr(reg, arg[1]) = arg[2]
        /\ reg = setattr(pre, arg[1], arg[2])

(***************************************************************************)
(* Vocabulary of the properties of the stacked definitions                 *)
(***************************************************************************)
\* every field references fields of the registry only, and without cycle
Acyclic(r) ==
    \E q \in Orders(r) :
        \A i \in 1..Len(q) :
            /\ Unknown(q[i].v, r) = {}
            /\ References(q[i].v) \subseteq {q[j].k : j \in 1..(i - 1)}

\* a resolved value that carries an error message
Sentinel(v) ==
    v.t = "str" /\ \E i \in 1..Len(v.s) : v.s[i] = "<Error: "

(***************************************************************************)
(* C22: definitions that are fully defined and acyclic resolve to the      *)
(* same values in whatever order they were stacked by += : eval completes, *)
(* no resolved value is an error message, and the values are those of the  *)
(* same definitions stacked in any other order.                            *)
(***************************************************************************)
C22_StackingOrderFree ==
    (op = "eval" /\ Acyclic(pre)) =>
        /\ err = NoErr
        /\ \A i \in 1..Len(res) : ~Sentinel(res[i].v)
        /\ \A r \in Orders(pre) :
               LET other == eval(sortdefinitions(r, FALSE).reg,
                                 protection, evaluation, returnerror)
               IN  /\ other.exc = "none"
                   /\ \A k \in KeySet(pre) : SameValue(res, other.tmp, k)

(***************************************************************************)
(* Vocabulary of the properties of the lenient sort                        *)
(***************************************************************************)
\* first fit where, when no pending field is satisfied, the first one is taken
RECURSIVE LenientFrom(_, _, _)
LenientFrom(acc, pending, r) ==
    LET C == {i \in 1..Len(pending) : Satisfied(pending[i], acc, r)}
        i == IF C = {} THEN 1 ELSE MinOf(C)
    IN  IF pending = <<>> THEN acc
        ELSE LenientFrom(Append(acc, pending[i]), RemoveAt(pending, i), r)

(***************************************************************************)
(* C23: the lenient sort never raises, and its dynamic fields come in the  *)
(* order of the first fit in which, when no pending field is satisfied,    *)
(* the first pending field is accepted and the first fit goes on.          *)
(***************************************************************************)
C23_LenientForcesFirst ==
    (op = "sort" /\ ~strict /\ \A i \in 1..Len(pre) : ~HasPlaceholder(pre[i].v) \/ Dynamic(pre[i].v)) =>
        /\ err = NoErr
        /\ Subsequence(reg, TRUE)
               = Subsequence(LenientFrom(Subsequence(pre, FALSE), Subsequence(pre, TRUE), pre), TRUE)

(***************************************************************************)
(* C25: a text whose placeholders are all backslash-escaped is static for  *)
(* the sorter: a registry without unescaped ${...} span is sorted without  *)
(* failure in strict mode and keeps its order, whether the escaped names   *)
(* are fields or not.                                                      *)
(***************************************************************************)
C25_EscapedIsStatic ==
    (op = "sort" /\ \A i \in 1..Len(pre) : ~Dynamic(pre[i].v)) =>
        /\ err = NoErr
        /\ reg = pre
        /\ \A i \in 1..Len(pre) : ~IsExpr(pre[i].v)

(***************************************************************************)
(* C28: sortdefinitions only permutes the registry: in either mode, and    *)
(* whether it fails or not, the registry holds afterwards the same names   *)
(* with the same raw values, each once.                                    *)
(***************************************************************************)
C28_OnlyPermutes ==
    op = "sort" =>
        /\ Len(reg) = Len(pre)
        /\ SameFields(reg, pre)

\* a registry with an empty list and a self-referential field was re-ordered
C28_Witness ==
    /\ op = "sort" /\ err = NoErr
    /\ reg # pre
    /\ \E i \in 1..Len(pre) : IsEmptyList(pre[i].v)
    /\ \E i \in 1..Len(pre) : pre[i].k \in References(pre[i].v)
    /\ Len(reg) = Len(pre)

(***************************************************************************)
(* C29: when sortdefinitions fails in strict mode the registry is left as  *)
(* it was: same names, same order, same raw values.                        *)
(***************************************************************************)
C29_StrictFailureKeeps ==
    (op = "sort" /\ err # NoErr) => (strict /\ reg = pre)

\* the strict sort failed after it had accepted a field that was not in place
C29_Witness ==
    /\ op = "sort" /\ strict /\ err.kind = "KeyError"
    /\ err.n < Len(SelectFields(pre, TRUE))
    /\ pre # StructAdd(SelectFields(pre, FALSE), SelectFields(pre, TRUE))
    /\ reg = pre

(***************************************************************************)
(* C30: sortdefinitions is idempotent: after a strict sort that succeeded, *)
(* a second strict sort succeeds and leaves the order as it is.            *)
(***************************************************************************)
C30_SortIdempotent ==
    (op = "sort" /\ strict /\ err = NoErr) =>
        sortdefinitions(reg, TRUE) = [reg |-> reg, err |-> NoErr]

\* a strict sort has re-ordered a registry with two dynamic fields
C30_Witness ==
    /\ op = "sort" /\ strict /\ err = NoErr
    /\ reg # pre
    /\ Len(SelectFields(reg, TRUE)) >= 2

(***************************************************************************)
(* C27: the escape transform is injective: no other text has the same      *)
(* transformed text, so a genuine ${a} and a bare {a} are told apart.      *)
(***************************************************************************)
C27_EscapeInjective ==
    op = "escape" =>
        \A t \in Texts : t # arg[1] => escape(t).s # res[1].s

(***************************************************************************)
(* C26: the flag _returnerror selects what a default-mode expression that  *)
(* references an undefined name resolves to: a text that carries the       *)
(* undefined name when the flag is on, the raw text of the field when the  *)
(* flag is off.                                                            *)
(***************************************************************************)
C26_FlagSelectsResult ==
    (op = "eval" /\ err = NoErr) =>
        \A i \in 1..Len(pre) :
            (/\ Dynamic(pre[i].v)
             /\ pre[i].v.s[1] \notin {"%", "!"}
             /\ \A j \in 1..Len(pre[i].v.s) : ~StartsAt(pre[i].v.s, Escaped, j)
             /\ ~(References(pre[i].v) \subseteq KeySet(pre))) =>
                /\ hasattr(res, pre[i].k)
                /\ IF returnerror
                   THEN \E n \in References(pre[i].v) \ KeySet(pre) :
                            NamesInError(getattr(res, pre[i].k), n)
                   ELSE getattr(res, pre[i].k) = pre[i].v

(***************************************************************************)
(* Vocabulary of the properties of the loop of sortdefinitions             *)
(***************************************************************************)
\* the number of dynamic fields of the registry that is sorted
NDynamic == Len(SelectFields(pre, TRUE))

\* every iteration so far has removed exactly one field from the pending set
OnePerIteration ==
    /\ loop.on =>
           /\ loop.nmissing = Len(loop.dynamic)
           /\ loop.iterations + loop.nmissing = NDynamic
    /\ (op = "sort" /\ err = NoErr) =>
           /\ loop.dynamic = <<>>
           /\ loop.iterations = NDynamic
    /\ (op = "sort" /\ err # NoErr) =>
           /\ strict /\ err.kind = "KeyError"
           /\ loop.iterations <= NDynamic

(***************************************************************************)
(* C24: sortdefinitions terminates: every iteration of its outer loop      *)
(* removes exactly one field from the pending set or raises (strict mode), *)
(* so a sort of n dynamic fields ends, with an empty pending set unless it *)
(* raised, after at most n iterations; also for self-referential and       *)
(* cyclic definitions.                                                     *)
(***************************************************************************)
C24_SortTerminates == []OnePerIteration /\ (loop.on ~> ~loop.on)

\* a lenient sort of three dynamic fields, one self-referential, has ended
C24_Witness ==
    /\ op = "sort" /\ ~loop.on /\ err = NoErr /\ ~strict
    /\ NDynamic = 3 /\ loop.iterations = 3
    /\ \E i \in 1..Len(pre) : pre[i].k \in References(pre[i].v)

=============================================================================
